---- MODULE Spec2Model ----
(***************************************************************************)
(* Model of main.py of ton-bot: the JSON cache file (load_cache,          *)
(* save_cache), the rate fetch with its time-to-live (fetch_ton_usd), the  *)
(* price parser (parse_ton_price), the calculator (calc) and the message   *)
(* handler (on_price).                                                     *)
(*                                                                         *)
(* Floats are modelled as exact rationals n/d plus the special values NaN  *)
(* and +-Infinity; rounding of binary floating point is not modelled.      *)
(* The cache file is a sequence of JSON tokens (whitespace left out).      *)
(***************************************************************************)
EXTENDS Integers, Sequences, FiniteSets, TLC

(***************************************************************************)
(* Bounds of the model.                                                    *)
(***************************************************************************)
MaxMsgs == 2
StartClock == 100

(***************************************************************************)
(* Program constants.                                                      *)
(***************************************************************************)
CACHE_TTL_SEC == 60
TIMEOUT_TOTAL == 15

(***************************************************************************)
(* Python floats.                                                          *)
(***************************************************************************)
Abs(x) == IF x < 0 THEN -x ELSE x

RECURSIVE Gcd(_, _)
Gcd(a, b) == IF b = 0 THEN a ELSE Gcd(b, a % b)

Fin(n, d) ==
    LET g == Gcd(Abs(n), Abs(d))
        s == IF d < 0 THEN -1 ELSE 1
    IN  [k |-> "fin", n |-> (s * n) \div g, d |-> (s * d) \div g]

I(n) == [k |-> "fin", n |-> n, d |-> 1]
NaN == [k |-> "nan", n |-> 0, d |-> 1]
PosInf == [k |-> "inf", n |-> 1, d |-> 1]
NegInf == [k |-> "inf", n |-> -1, d |-> 1]

Sign(x) == IF x.n > 0 THEN 1 ELSE IF x.n < 0 THEN -1 ELSE 0

IsFinite(x) == x.k = "fin"

\* x < y, x <= y, x > y of Python floats: every comparison with NaN is False
FLt(x, y) ==
    /\ x.k # "nan"
    /\ y.k # "nan"
    /\ IF x.k = "inf" THEN x.n < 0 /\ ~(y.k = "inf" /\ y.n < 0)
       ELSE IF y.k = "inf" THEN y.n > 0
       ELSE x.n * y.d < y.n * x.d

FLe(x, y) == x.k # "nan" /\ y.k # "nan" /\ ~FLt(y, x)

FGt(x, y) == FLt(y, x)

FNeg(x) == [x EXCEPT !.n = -x.n]

FMul(x, y) ==
    IF x.k = "nan" \/ y.k = "nan" THEN NaN
    ELSE IF x.k = "inf" \/ y.k = "inf"
         THEN IF Sign(x) * Sign(y) = 0 THEN NaN
              ELSE IF Sign(x) * Sign(y) > 0 THEN PosInf ELSE NegInf
    ELSE Fin(x.n * y.n, x.d * y.d)

FSub(x, y) ==
    IF x.k = "nan" \/ y.k = "nan" THEN NaN
    ELSE IF x.k = "inf" THEN (IF y.k = "inf" /\ y.n = x.n THEN NaN ELSE x)
    ELSE IF y.k = "inf" THEN FNeg(y)
    ELSE Fin(x.n * y.d - y.n * x.d, x.d * y.d)

\* x / y for y # 0 (Python raises ZeroDivisionError for y = 0, see calc)
FDiv(x, y) ==
    IF x.k = "nan" \/ y.k = "nan" THEN NaN
    ELSE IF x.k = "inf" THEN (IF y.k = "inf" THEN NaN
                              ELSE IF Sign(y) < 0 THEN FNeg(x) ELSE x)
    ELSE IF y.k = "inf" THEN I(0)
    ELSE Fin(x.n * y.d, x.d * y.n)

(***************************************************************************)
(* Decimal text of numbers: repr() of a float as json.dump writes it and   *)
(* float() of a decimal literal as json.load and parse_ton_price read it.  *)
(***************************************************************************)
Digit == {"0", "1", "2", "3", "4", "5", "6", "7", "8", "9"}

DigitVal(c) ==
    CASE c = "0" -> 0 [] c = "1" -> 1 [] c = "2" -> 2 [] c = "3" -> 3
      [] c = "4" -> 4 [] c = "5" -> 5 [] c = "6" -> 6 [] c = "7" -> 7
      [] c = "8" -> 8 [] c = "9" -> 9

DigitChar(v) == <<"0", "1", "2", "3", "4", "5", "6", "7", "8", "9">>[v + 1]

RECURSIVE Digits(_)
Digits(n) == IF n < 10 THEN <<DigitChar(n)>>
             ELSE Append(Digits(n \div 10), DigitChar(n % 10))

RECURSIVE DigitsVal(_)
DigitsVal(s) == IF s = <<>> THEN 0
                ELSE 10 * DigitsVal(SubSeq(s, 1, Len(s) - 1)) + DigitVal(s[Len(s)])

RECURSIVE Pow10(_)
Pow10(e) == IF e = 0 THEN 1 ELSE 10 * Pow10(e - 1)

AllDigits(s) == s # <<>> /\ \A i \in 1..Len(s) : s[i] \in Digit

IndexOf(s, c) ==
    IF \E i \in 1..Len(s) : s[i] = c
    THEN CHOOSE i \in 1..Len(s) : s[i] = c /\ \A j \in 1..(i - 1) : s[j] # c
    ELSE 0

\* -?digits(.digits)? : the unsigned part of s is digits, or digits "." digits
IsDecimal(s, seps) ==
    LET u == IF s # <<>> /\ s[1] = "-" THEN Tail(s) ELSE s
        p == IF \E i \in 1..Len(u) : u[i] \in seps
             THEN CHOOSE i \in 1..Len(u) : u[i] \in seps /\ \A j \in 1..(i - 1) : u[j] \notin seps
             ELSE 0
    IN  IF p = 0 THEN AllDigits(u)
        ELSE AllDigits(SubSeq(u, 1, p - 1)) /\ AllDigits(SubSeq(u, p + 1, Len(u)))

DecimalVal(s, seps) ==
    LET neg == s[1] = "-"
        u == IF neg THEN Tail(s) ELSE s
        p == IF \E i \in 1..Len(u) : u[i] \in seps
             THEN CHOOSE i \in 1..Len(u) : u[i] \in seps
             ELSE 0
        ip == IF p = 0 THEN u ELSE SubSeq(u, 1, p - 1)
        fp == IF p = 0 THEN <<>> ELSE SubSeq(u, p + 1, Len(u))
        m == DigitsVal(ip) * Pow10(Len(fp)) + DigitsVal(fp)
    IN  Fin(IF neg THEN -m ELSE m, Pow10(Len(fp)))

\* float.__repr__ of a float with at most one decimal place, or NaN / Infinity
\* as json.dump writes them (allow_nan is left at its default)
FloatRepr(x) ==
    IF x.k = "nan" THEN <<"NaN">>
    ELSE IF x.k = "inf" THEN (IF x.n > 0 THEN <<"Infinity">> ELSE <<"-Infinity">>)
    ELSE (IF x.n < 0 THEN <<"-">> ELSE <<>>) \o Digits(Abs(x.n) \div x.d)
         \o <<".">> \o Digits(((Abs(x.n) % x.d) * 10) \div x.d)

IsJsonNumber(s) ==
    \/ s \in {<<"NaN">>, <<"Infinity">>, <<"-Infinity">>}
    \/ IsDecimal(s, {"."})

JsonNumber(s) ==
    IF s = <<"NaN">> THEN NaN
    ELSE IF s = <<"Infinity">> THEN PosInf
    ELSE IF s = <<"-Infinity">> THEN NegInf
    ELSE DecimalVal(s, {"."})

(***************************************************************************)
(* The cache file CACHE_FILE and the state of the storage it lives on.     *)
(*   "ok"      reads and writes succeed                                    *)
(*   "EACCES"  open() fails, for reading and for writing                   *)
(*   "ENOSPC"  reads succeed, open(.., "w") succeeds, write() fails        *)
(***************************************************************************)
StorageStates == {"ok", "EACCES", "ENOSPC"}

NoFile == [exists |-> FALSE, content |-> <<>>]
File(c) == [exists |-> TRUE, content |-> c]

None == [none |-> TRUE]

TonUsdPrice(r, t) == [ton_usd |-> r, ts |-> t]

\* the two values written under each other's key
JsonDump_swapped(p) ==
    <<"{", "ton_usd", ":">> \o FloatRepr(p.ts)
        \o <<",", "ts", ":">> \o FloatRepr(p.ton_usd) \o <<"}">>

\* json.dump({"ton_usd": p.ton_usd, "ts": p.ts}, f, ensure_ascii=False, indent=2)
JsonDump(p) ==
    <<"{", "ton_usd", ":">> \o FloatRepr(p.ton_usd)
        \o <<",", "ts", ":">> \o FloatRepr(p.ts) \o <<"}">>

\* json.load(f) followed by float(d["ton_usd"]), float(d["ts"]): None stands
\* for any exception (JSONDecodeError on a truncated text or on extra data,
\* KeyError, TypeError, ValueError)
JsonLoad(c) ==
    LET i == IndexOf(c, ",")
        j == Len(c)
    IN  IF /\ j >= 9
           /\ i > 4
           /\ j > i + 3
           /\ c[1] = "{" /\ c[2] = "ton_usd" /\ c[3] = ":"
           /\ c[i + 1] = "ts" /\ c[i + 2] = ":"
           /\ c[j] = "}"
           /\ IsJsonNumber(SubSeq(c, 4, i - 1))
           /\ IsJsonNumber(SubSeq(c, i + 3, j - 1))
        THEN TonUsdPrice(JsonNumber(SubSeq(c, 4, i - 1)), JsonNumber(SubSeq(c, i + 3, j - 1)))
        ELSE None

\* an exception that leaves a function
Raised(e) == [raised |-> e]
IsRaised(r) == "raised" \in DOMAIN r

\* the try block of load_cache: open, json.load, TonUsdPrice(float, float)
load_cache_try(f, st) ==
    IF st = "EACCES" THEN Raised("PermissionError")
    ELSE IF ~f.exists THEN Raised("FileNotFoundError")
    ELSE IF JsonLoad(f.content) = None THEN Raised("JSONDecodeError")
    ELSE JsonLoad(f.content)

\* a narrower except clause: only the missing file counts as "no cache"
load_cache_narrow(f, st) ==
    LET r == load_cache_try(f, st)
    IN  IF IsRaised(r) /\ r.raised = "FileNotFoundError" THEN None ELSE r

\* try: ... except Exception: return None
load_cache(f, st) ==
    LET r == load_cache_try(f, st)
    IN  IF IsRaised(r) THEN None ELSE r

Min(a, b) == IF a < b THEN a ELSE b

\* the file overwritten in place, what is left of a longer old text kept
save_cache_notrunc(f, st, p, k) ==
    IF st = "EACCES" THEN [file |-> f, exc |-> "PermissionError"]
    ELSE IF st = "ENOSPC"
         THEN [file |-> File(SubSeq(JsonDump(p), 1, Min(k, Len(JsonDump(p)) - 1))),
               exc |-> "OSError"]
    ELSE [file |-> File(JsonDump(p) \o SubSeq(f.content, Len(JsonDump(p)) + 1, Len(f.content))),
          exc |-> ""]

\* open(CACHE_FILE, "w") truncates the file, then json.dump writes it. When
\* the write fails only the first k tokens reach the file, never all of them.
save_cache(f, st, p, k) ==
    IF st = "EACCES" THEN [file |-> f, exc |-> "PermissionError"]
    ELSE IF st = "ENOSPC"
         THEN [file |-> File(SubSeq(JsonDump(p), 1, Min(k, Len(JsonDump(p)) - 1))),
               exc |-> "OSError"]
    ELSE [file |-> File(JsonDump(p)), exc |-> ""]

(***************************************************************************)
(* fetch_ton_usd, split at its suspension points: fetch_head runs up to    *)
(* session.get, fetch_tail from the arrival of the JSON body to the return.*)
(***************************************************************************)
Ret(v) == [st |-> "ret", v |-> v, e |-> ""]
Exc(e) == [st |-> "exc", v |-> I(0), e |-> e]
NoRet == [st |-> "none", v |-> I(0), e |-> ""]

\* the cache hit returns the record's timestamp instead of its rate
fetch_head_ts(f, st, clk) ==
    LET cached == load_cache(f, st)
        now == I(clk)
    IN  IF cached # None /\ FLt(FSub(now, cached.ts), I(CACHE_TTL_SEC))
        THEN [hit |-> TRUE, ret |-> Ret(cached.ts), cached |-> cached]
        ELSE [hit |-> FALSE, ret |-> NoRet, cached |-> cached]

\* a record, once cached, is served whatever its age
fetch_head_sticky(f, st, clk) ==
    LET cached == load_cache(f, st)
    IN  IF cached # None
        THEN [hit |-> TRUE, ret |-> Ret(cached.ton_usd), cached |-> cached]
        ELSE [hit |-> FALSE, ret |-> NoRet, cached |-> cached]

\* the freshness test written with <= instead of <
fetch_head_le(f, st, clk) ==
    LET cached == load_cache(f, st)
        now == I(clk)
    IN  IF cached # None /\ FLe(FSub(now, cached.ts), I(CACHE_TTL_SEC))
        THEN [hit |-> TRUE, ret |-> Ret(cached.ton_usd), cached |-> cached]
        ELSE [hit |-> FALSE, ret |-> NoRet, cached |-> cached]

\* cached = load_cache(); now = time.time();
\* if cached and (now - cached.ts) < CACHE_TTL_SEC: return cached.ton_usd
\* (an exception of load_cache, if it let one out, would end the call)
fetch_head(f, st, clk) ==
    LET cached == load_cache(f, st)
        now == I(clk)
    IN  IF IsRaised(cached)
        THEN [hit |-> FALSE, ret |-> Exc(cached.raised), cached |-> None]
        ELSE IF cached # None /\ FLt(FSub(now, cached.ts), I(CACHE_TTL_SEC))
        THEN [hit |-> TRUE, ret |-> Ret(cached.ton_usd), cached |-> cached]
        ELSE [hit |-> FALSE, ret |-> NoRet, cached |-> cached]

\* The bodies the remote source may answer with. "number" is a JSON number
\* (Python's json accepts the literal NaN) or a numeric string such as "nan".
BodyShapes == {"notjson", "noasset", "nousd", "null", "text", "number"}
Body(sh, v) == [shape |-> sh, v |-> v]
NoBody == Body("none", I(0))

\* the record saved before the rate is validated
fetch_tail_early_save(f, st, body, now, k) ==
    IF body.shape = "notjson" THEN [file |-> f, ret |-> Exc("ContentTypeError"), put |-> None]
    ELSE IF body.shape \in {"noasset", "nousd"} THEN [file |-> f, ret |-> Exc("KeyError"), put |-> None]
    ELSE IF body.shape = "null" THEN [file |-> f, ret |-> Exc("TypeError"), put |-> None]
    ELSE IF body.shape = "text" THEN [file |-> f, ret |-> Exc("ValueError"), put |-> None]
    ELSE LET ton_usd == body.v
             p == TonUsdPrice(ton_usd, I(now))
             w == save_cache(f, st, p, k)
         IN  [file |-> w.file,
              ret |-> IF w.exc # "" THEN Exc(w.exc)
                      ELSE IF FLe(ton_usd, I(0)) THEN Exc("RuntimeError")
                      ELSE Ret(ton_usd),
              put |-> p]

\* data = await resp.json(); ton_usd = float(data["the-open-network"]["usd"]);
\* if ton_usd <= 0: raise RuntimeError; save_cache(..., ts=now); return ton_usd
fetch_tail(f, st, body, now, k) ==
    IF body.shape = "notjson" THEN [file |-> f, ret |-> Exc("ContentTypeError"), put |-> None]
    ELSE IF body.shape \in {"noasset", "nousd"} THEN [file |-> f, ret |-> Exc("KeyError"), put |-> None]
    ELSE IF body.shape = "null" THEN [file |-> f, ret |-> Exc("TypeError"), put |-> None]
    ELSE IF body.shape = "text" THEN [file |-> f, ret |-> Exc("ValueError"), put |-> None]
    ELSE LET ton_usd == body.v
         IN  IF FLe(ton_usd, I(0))
             THEN [file |-> f, ret |-> Exc("RuntimeError"), put |-> None]
             ELSE LET p == TonUsdPrice(ton_usd, I(now))
                      w == save_cache(f, st, p, k)
                  IN  [file |-> w.file,
                       ret |-> IF w.exc # "" THEN Exc(w.exc) ELSE Ret(ton_usd),
                       put |-> p]

(***************************************************************************)
(* parse_ton_price: re.fullmatch(r"\s*(-?\d+(?:[.,]\d+)?)\s*", text or "") *)
(* A text is a sequence of characters; a message without text (None) is    *)
(* the empty sequence, as `text or ""` makes it.                           *)
(***************************************************************************)
Space == {" "}

RECURSIVE LStrip(_)
LStrip(s) == IF s # <<>> /\ s[1] \in Space THEN LStrip(Tail(s)) ELSE s

RECURSIVE RStrip(_)
RStrip(s) == IF s # <<>> /\ s[Len(s)] \in Space THEN RStrip(SubSeq(s, 1, Len(s) - 1)) ELSE s

NoPrice == [k |-> "none", n |-> 0, d |-> 1]

\* re.match in place of re.fullmatch: a price at the start of the text is enough
parse_ton_price_prefix(text) ==
    LET core == LStrip(text)
        ks == {k \in 1..Len(core) : IsDecimal(SubSeq(core, 1, k), {".", ","})}
    IN  IF ks = {} THEN NoPrice
        ELSE DecimalVal(SubSeq(core, 1, CHOOSE k \in ks : \A j \in ks : j <= k), {".", ","})

parse_ton_price(text) ==
    LET core == RStrip(LStrip(text))
    IN  IF IsDecimal(core, {".", ","}) THEN DecimalVal(core, {".", ","}) ELSE NoPrice

(***************************************************************************)
(* calc                                                                    *)
(***************************************************************************)
STARS_50_USD == Fin(78, 100)
DISCOUNT == Fin(95, 100)

\* the fee of 50 stars subtracted whole, not halved
calc_unhalved(price_ton, ton_usd) ==
    IF ton_usd.k = "fin" /\ ton_usd.n = 0
    THEN [exc |-> "ZeroDivisionError", d |-> None]
    ELSE LET price_minus_5 == FMul(price_ton, DISCOUNT)
             stars50_ton == FDiv(STARS_50_USD, ton_usd)
             transfer25_ton == FDiv(stars50_ton, I(2))
             result == FSub(price_minus_5, stars50_ton)
         IN  [exc |-> "",
              d |-> [price_ton |-> price_ton,
                     minus5_ton |-> price_minus_5,
                     ton_usd |-> ton_usd,
                     stars50_ton |-> stars50_ton,
                     transfer25_ton |-> transfer25_ton,
                     result_ton |-> result]]

calc(price_ton, ton_usd) ==
    IF ton_usd.k = "fin" /\ ton_usd.n = 0
    THEN [exc |-> "ZeroDivisionError", d |-> None]
    ELSE LET price_minus_5 == FMul(price_ton, DISCOUNT)
             stars50_ton == FDiv(STARS_50_USD, ton_usd)
             transfer25_ton == FDiv(stars50_ton, I(2))
             result == FSub(price_minus_5, transfer25_ton)
         IN  [exc |-> "",
              d |-> [price_ton |-> price_ton,
                     minus5_ton |-> price_minus_5,
                     ton_usd |-> ton_usd,
                     stars50_ton |-> stars50_ton,
                     transfer25_ton |-> transfer25_ton,
                     result_ton |-> result]]

(***************************************************************************)
(* on_price: the replies of the handler                                    *)
(***************************************************************************)
\* str(e) of the exceptions the handler may catch
StrOf(e) ==
    CASE e = "RuntimeError" -> "incorrect ton_usd"
      [] e = "TimeoutError" -> ""
      [] e = "KeyError" -> "'key'"
      [] e = "ZeroDivisionError" -> "float division by zero"
      [] OTHER -> e

\* long division: `steps` more decimal digits of (acc + rem/d)
RECURSIVE LongDiv(_, _, _, _)
LongDiv(acc, rem, d, steps) ==
    IF steps = 0 THEN <<acc, rem>>
    ELSE LongDiv(acc * 10 + (rem * 10) \div d, (rem * 10) % d, d, steps - 1)

\* f"{x:.6f}": x rounded to 6 decimal places (ties to even), in millionths
Fmt6(x) ==
    IF x.k # "fin" THEN x
    ELSE LET qr == LongDiv(Abs(x.n) \div x.d, Abs(x.n) % x.d, x.d, 6)
             q == qr[1]
             r == qr[2]
             up == 2 * r > x.d \/ (2 * r = x.d /\ q % 2 = 1)
             m == IF up THEN q + 1 ELSE q
         IN  [k |-> "fin", n |-> IF x.n < 0 THEN -m ELSE m, d |-> 1000000]

Fields == {"price_ton", "minus5_ton", "ton_usd", "stars50_ton", "transfer25_ton", "result_ton"}

RejectReply == [kind |-> "reject", text |-> "only a number", d |-> None]
ErrorReply(e) == [kind |-> "error", text |-> StrOf(e), d |-> None]
ResultReply(d) == [kind |-> "result", text |-> "", d |-> [f \in Fields |-> Fmt6(d[f])]]

\* no except clause: a failure leaves the handler without an answer
on_price_reply_noexcept(price_ton, r) ==
    IF r.st = "exc" THEN <<>>
    ELSE LET c == calc(price_ton, r.v)
         IN  IF c.exc # "" THEN <<>> ELSE <<ResultReply(c.d)>>

\* try: ton_usd = await fetch_ton_usd(session); d = calc(price_ton, ton_usd);
\*      await m.answer(result)
\* except Exception as e: await m.answer(f"error: {e}")
on_price_reply(price_ton, r) ==
    IF r.st = "exc" THEN <<ErrorReply(r.e)>>
    ELSE LET c == calc(price_ton, r.v)
         IN  IF c.exc # "" THEN <<ErrorReply(c.exc)>> ELSE <<ResultReply(c.d)>>

(***************************************************************************)
(* The bot: messages 1..MaxMsgs, each handled by its own task.             *)
(***************************************************************************)
VARIABLES
    token,      \* BOT_TOKEN
    proc,       \* the process: "init" (before main), "polling", "exit"
    clock,      \* time.time(), in seconds
    storage,    \* state of the storage of the cache file
    origin,     \* when the request was issued that the persisted record answers
    file,       \* the cache file
    pc,         \* pc[m]: "new", "get" (in session.get), "json" (in resp.json), "done", "end"
    text,       \* text[m]: m.text of on_price
    price,      \* price[m]: price_ton of on_price
    cached,     \* cached[m]: cached of fetch_ton_usd
    now,        \* now[m]: now of fetch_ton_usd
    data,       \* data[m]: the body received by fetch_ton_usd
    ret,        \* ret[m]: how fetch_ton_usd ended
    put,        \* put[m]: the record fetch_ton_usd passed to save_cache
    over,       \* over[m]: the file as that call of save_cache found it
    reqs,       \* reqs[m]: network requests issued by fetch_ton_usd
    replies,    \* replies[m]: the answers the handler of message m has sent
    unit        \* the last direct call of a function (SpecUnit only)

vars == <<token, proc, clock, storage, file, origin, pc, text, price, cached, now, data, ret, put, over, reqs, replies, unit>>

Msgs == 1..MaxMsgs

NoCall == [op |-> "none"]

\* the instants at which the model looks at the clock
Offsets == {0, 1, 15, 60, 61}
Clocks == {StartClock + o : o \in Offsets}

Texts == {<<" ", "1", "2", ",", "8">>, <<"a", "b", "c">>, <<"1", ".", "2", ".", "3">>, <<>>}

RemoteRates == {I(5), I(12), I(0), I(-1), NaN}
Bodies == {Body(sh, I(0)) : sh \in BodyShapes \ {"number"}} \cup {Body("number", v) : v \in RemoteRates}

Statuses == {200, 429, 500}

\* the cache files a previous run may have left
InitFiles ==
    {NoFile, File(<<"{">>)}
    \cup {File(JsonDump(TonUsdPrice(I(5), I(StartClock - o)))) : o \in {0, 59, 60}}

\* os.getenv("BOT_TOKEN"): None when the variable is not set
Unset == "<unset>"
TokenValues == {Unset, "", "123:ABC"}

\* truth value of BOT_TOKEN in `if not BOT_TOKEN`
Truthy(tok) == tok # Unset /\ tok # ""

\* main without the test of BOT_TOKEN
main_start_unchecked(tok) == "polling"

\* main: if not BOT_TOKEN: raise SystemExit(...); ...; await dp.start_polling(bot)
main_start(tok) == IF ~Truthy(tok) THEN "exit" ELSE "polling"

\* the persisted record, if any, answers no request of this run
NoOrigin == -1

Init ==
    /\ token \in TokenValues
    /\ proc = "init"
    /\ clock = StartClock
    /\ storage = "ok"
    /\ file \in InitFiles
    /\ origin = NoOrigin
    /\ pc = [m \in Msgs |-> "new"]
    /\ text = [m \in Msgs |-> <<>>]
    /\ price = [m \in Msgs |-> NoPrice]
    /\ cached = [m \in Msgs |-> None]
    /\ now = [m \in Msgs |-> 0]
    /\ data = [m \in Msgs |-> NoBody]
    /\ ret = [m \in Msgs |-> NoRet]
    /\ put = [m \in Msgs |-> None]
    /\ over = [m \in Msgs |-> NoFile]
    /\ reqs = [m \in Msgs |-> 0]
    /\ replies = [m \in Msgs |-> <<>>]
    /\ unit = NoCall

\* asyncio.run(main())
Main ==
    /\ proc = "init"
    /\ proc' = main_start(token)
    /\ UNCHANGED <<token, clock, storage, file, origin, pc, text, price, cached, now, data, ret, put, over, reqs, replies, unit>>

Pending(m) == pc[m] \in {"get", "json"}

\* a request without ClientTimeout: there is always time left
TimeLeft_unbounded(start, c) == 1

\* a timer that fires one second late
TimeLeft_late(start, c) == TIMEOUT_TOTAL + 1 - (c - start)

\* ClientTimeout(total=15): what is left at time c of a request issued at start
TimeLeft(start, c) == TIMEOUT_TOTAL - (c - start)

\* the instants at which the timer of a pending request fires
Deadlines == {now[m] + TIMEOUT_TOTAL : m \in {j \in Msgs : Pending(j)}}

\* A handler that has sent its answer returns before anything else happens
Running == \A m \in Msgs : pc[m] # "done"

\* Time passes; a pending request does not outlive its timeout
Tick(c) ==
    /\ Running
    /\ c > clock
    /\ \A m \in Msgs : Pending(m) => TimeLeft(now[m], c) >= 0
    /\ clock' = c
    /\ UNCHANGED <<storage, file, origin, pc, price, cached, now, data, ret, put, over, reqs, replies, text, unit, token, proc>>

SetStorage(s) ==
    /\ Running
    /\ s # storage
    /\ storage' = s
    /\ UNCHANGED <<clock, file, origin, pc, price, cached, now, data, ret, put, over, reqs, replies, text, unit, token, proc>>

Arrives(m) == proc = "polling" /\ Running /\ pc[m] = "new" /\ \A j \in 1..(m - 1) : pc[j] # "new"

\* on_price, text rejected by parse_ton_price
Reject(m, t) ==
    /\ Arrives(m)
    /\ text' = [text EXCEPT ![m] = t]
    /\ parse_ton_price(t) = NoPrice
    /\ pc' = [pc EXCEPT ![m] = "done"]
    /\ replies' = [replies EXCEPT ![m] = <<RejectReply>>]
    /\ UNCHANGED <<clock, storage, file, origin, price, cached, now, data, ret, put, over, reqs, unit, token, proc>>

\* on_price, fetch_ton_usd ends before any request: it returns the cached rate
ServeCached(m, t) ==
    /\ Arrives(m)
    /\ text' = [text EXCEPT ![m] = t]
    /\ parse_ton_price(t) # NoPrice
    /\ LET h == fetch_head(file, storage, clock)
       IN  /\ h.ret.st # "none"
           /\ price' = [price EXCEPT ![m] = parse_ton_price(t)]
           /\ cached' = [cached EXCEPT ![m] = h.cached]
           /\ now' = [now EXCEPT ![m] = clock]
           /\ ret' = [ret EXCEPT ![m] = h.ret]
           /\ replies' = [replies EXCEPT ![m] = on_price_reply(parse_ton_price(t), h.ret)]
           /\ pc' = [pc EXCEPT ![m] = "done"]
    /\ UNCHANGED <<clock, storage, file, origin, data, put, over, reqs, unit, token, proc>>

\* on_price, fetch_ton_usd issues the request and waits in session.get
StartFetch(m, t) ==
    /\ Arrives(m)
    /\ text' = [text EXCEPT ![m] = t]
    /\ parse_ton_price(t) # NoPrice
    /\ LET h == fetch_head(file, storage, clock)
       IN  /\ h.ret.st = "none"
           /\ price' = [price EXCEPT ![m] = parse_ton_price(t)]
           /\ cached' = [cached EXCEPT ![m] = h.cached]
           /\ now' = [now EXCEPT ![m] = clock]
           /\ reqs' = [reqs EXCEPT ![m] = @ + 1]
           /\ pc' = [pc EXCEPT ![m] = "get"]
    /\ UNCHANGED <<clock, storage, file, origin, data, ret, put, over, replies, unit, token, proc>>

Fail(m, e) ==
    /\ ret' = [ret EXCEPT ![m] = Exc(e)]
    /\ replies' = [replies EXCEPT ![m] = on_price_reply(price[m], Exc(e))]
    /\ pc' = [pc EXCEPT ![m] = "done"]

\* session.get raises and the request is issued again
GetFails_retry(m, e) ==
    /\ Running
    /\ pc[m] = "get"
    /\ e = "TimeoutError" <=> TimeLeft(now[m], clock) <= 0
    /\ IF reqs[m] < 2
       THEN /\ reqs' = [reqs EXCEPT ![m] = @ + 1]
            /\ UNCHANGED <<pc, ret, replies>>
       ELSE /\ Fail(m, e)
            /\ UNCHANGED reqs
    /\ UNCHANGED <<clock, storage, file, origin, price, cached, now, data, put, over, text, unit, token, proc>>

\* session.get raises: connection error, or the total timeout expires
GetFails(m, e) ==
    /\ Running
    /\ pc[m] = "get"
    /\ e = "TimeoutError" <=> TimeLeft(now[m], clock) <= 0
    /\ Fail(m, e)
    /\ UNCHANGED <<clock, storage, file, origin, price, cached, now, data, put, over, reqs, text, unit, token, proc>>

\* the response head arrives: resp.raise_for_status()
GetResponds(m, status) ==
    /\ Running
    /\ pc[m] = "get"
    /\ TimeLeft(now[m], clock) > 0
    /\ IF status >= 400
       THEN Fail(m, "ClientResponseError")
       ELSE /\ pc' = [pc EXCEPT ![m] = "json"]
            /\ UNCHANGED <<ret, replies>>
    /\ UNCHANGED <<clock, storage, file, origin, price, cached, now, data, put, over, reqs, text, unit, token, proc>>

\* await resp.json() raises: connection lost, or the total timeout expires
JsonFails(m, e) ==
    /\ Running
    /\ pc[m] = "json"
    /\ e = "TimeoutError" <=> TimeLeft(now[m], clock) <= 0
    /\ Fail(m, e)
    /\ UNCHANGED <<clock, storage, file, origin, price, cached, now, data, put, over, reqs, text, unit, token, proc>>

\* the body arrives: the rest of fetch_ton_usd and of on_price
JsonArrives(m, body, k) ==
    /\ Running
    /\ pc[m] = "json"
    /\ TimeLeft(now[m], clock) > 0
    /\ LET r == fetch_tail(file, storage, body, now[m], k)
       IN  /\ file' = r.file
           /\ origin' = IF r.ret.st = "ret" THEN now[m]
                         ELSE IF r.file = file THEN origin
                         ELSE NoOrigin
           /\ ret' = [ret EXCEPT ![m] = r.ret]
           /\ put' = [put EXCEPT ![m] = r.put]
           /\ over' = [over EXCEPT ![m] = IF r.put = None THEN NoFile ELSE file]
           /\ data' = [data EXCEPT ![m] = body]
           /\ replies' = [replies EXCEPT ![m] = on_price_reply(price[m], r.ret)]
           /\ pc' = [pc EXCEPT ![m] = "done"]
    /\ UNCHANGED <<clock, storage, price, cached, now, reqs, text, unit, token, proc>>

\* on_price returns: the task and its locals are gone
Return(m) ==
    /\ pc[m] = "done"
    /\ pc' = [pc EXCEPT ![m] = "end"]
    /\ text' = [text EXCEPT ![m] = <<>>]
    /\ price' = [price EXCEPT ![m] = NoPrice]
    /\ cached' = [cached EXCEPT ![m] = None]
    /\ now' = [now EXCEPT ![m] = 0]
    /\ data' = [data EXCEPT ![m] = NoBody]
    /\ ret' = [ret EXCEPT ![m] = NoRet]
    /\ put' = [put EXCEPT ![m] = None]
    /\ over' = [over EXCEPT ![m] = NoFile]
    /\ reqs' = [reqs EXCEPT ![m] = 0]
    /\ replies' = [replies EXCEPT ![m] = <<>>]
    /\ UNCHANGED <<clock, storage, file, origin, unit, token, proc>>

\* how many tokens of a failed write may reach the file
TornCuts == {0, 3}

Next ==
    \/ Main
    \/ \E c \in Clocks \cup Deadlines : Tick(c)
    \/ \E s \in StorageStates : SetStorage(s)
    \/ \E m \in Msgs, t \in Texts : Reject(m, t)
    \/ \E m \in Msgs, t \in Texts : ServeCached(m, t)
    \/ \E m \in Msgs, t \in Texts : StartFetch(m, t)
    \/ \E m \in Msgs, e \in {"ClientConnectorError", "TimeoutError"} : GetFails(m, e)
    \/ \E m \in Msgs, status \in Statuses : GetResponds(m, status)
    \/ \E m \in Msgs, e \in {"ClientPayloadError", "TimeoutError"} : JsonFails(m, e)
    \/ \E m \in Msgs, body \in Bodies, k \in TornCuts : JsonArrives(m, body, k)
    \/ \E m \in Msgs : Return(m)

Spec == Init /\ [][Next]_vars

\* the bot started without a cache file
InitFresh == Init /\ file = NoFile

SpecFresh == InitFresh /\ [][Next]_vars

\* the timer of ClientTimeout fires
Timeout(m) == GetFails(m, "TimeoutError") \/ JsonFails(m, "TimeoutError")

\* Time reaches the deadline of a pending request, the event loop runs the
\* timer that is due, and a handler that has answered returns.
Fairness ==
    /\ WF_vars(\E c \in Deadlines : Tick(c))
    /\ WF_vars(\E m \in Msgs : Timeout(m))
    /\ WF_vars(\E m \in Msgs : Return(m))

SpecFair == Spec /\ Fairness

(***************************************************************************)
(* Direct calls of save_cache, load_cache and calc, on any arguments.      *)
(***************************************************************************)
UnitRates == {I(5), I(12), I(0), I(-1), Fin(25, 2), NaN, PosInf}
UnitStamps == {I(0), I(7), I(StartClock), Fin(3, 2)}
UnitPrices == {I(0), I(7), Fin(64, 5), Fin(-7, 2), NaN, PosInf, NegInf}

UnitFiles ==
    {NoFile, File(<<>>), File(<<"{", "ton_usd", ":">>), File(<<"[", "1", "]">>)}
    \cup {File(JsonDump(TonUsdPrice(r, t))) : r \in {I(5), I(12)}, t \in {I(7), I(StartClock)}}

InitUnit ==
    /\ token = "123:ABC"
    /\ origin = NoOrigin
    /\ proc = "init"
    /\ clock = StartClock
    /\ storage \in StorageStates
    /\ file \in UnitFiles
    /\ pc = [m \in Msgs |-> "new"]
    /\ text = [m \in Msgs |-> <<>>]
    /\ price = [m \in Msgs |-> NoPrice]
    /\ cached = [m \in Msgs |-> None]
    /\ now = [m \in Msgs |-> 0]
    /\ data = [m \in Msgs |-> NoBody]
    /\ ret = [m \in Msgs |-> NoRet]
    /\ put = [m \in Msgs |-> None]
    /\ over = [m \in Msgs |-> NoFile]
    /\ reqs = [m \in Msgs |-> 0]
    /\ replies = [m \in Msgs |-> <<>>]
    /\ unit = NoCall

UnitFrame == UNCHANGED <<token, proc, clock, origin, pc, text, price, cached, now, data, ret, put, over, reqs, replies>>

\* save_cache(p)
UnitPut(p, k) ==
    /\ LET w == save_cache(file, storage, p, k)
       IN  /\ file' = w.file
           /\ unit' = [op |-> "put", p |-> p, exc |-> w.exc, before |-> file]
    /\ UNCHANGED storage
    /\ UnitFrame

\* load_cache() right after a save_cache
UnitGet ==
    /\ unit.op = "put"
    /\ unit' = [op |-> "putget", p |-> unit.p, exc |-> unit.exc, before |-> unit.before,
                got |-> load_cache(file, storage)]
    /\ UNCHANGED <<file, storage>>
    /\ UnitFrame

\* calc(price_ton, ton_usd)
UnitCalc(price_ton, ton_usd) ==
    /\ unit' = [op |-> "calc", price_ton |-> price_ton, ton_usd |-> ton_usd,
                res |-> calc(price_ton, ton_usd)]
    /\ UNCHANGED <<file, storage>>
    /\ UnitFrame

\* the storage changes between two calls
UnitStorage(st) ==
    /\ st # storage
    /\ storage' = st
    /\ unit' = NoCall
    /\ UNCHANGED file
    /\ UnitFrame

NextUnit ==
    \/ \E r \in UnitRates, t \in UnitStamps, k \in TornCuts : UnitPut(TonUsdPrice(r, t), k)
    \/ UnitGet
    \/ \E p \in UnitPrices, r \in UnitRates : UnitCalc(p, r)
    \/ \E st \in StorageStates : UnitStorage(st)

SpecUnit == InitUnit /\ [][NextUnit]_vars

(***************************************************************************)
(* Properties                                                              *)
(***************************************************************************)
\* message m enters fetch_ton_usd in this step
Calls(m) == pc[m] = "new" /\ pc'[m] # "new" /\ price'[m] # NoPrice

\* the failures of the remote fetch
FetchFailures ==
    {"ClientConnectorError", "TimeoutError", "ClientResponseError", "ClientPayloadError",
     "ContentTypeError", "KeyError", "TypeError", "ValueError", "RuntimeError"}

\* C1: a call of fetch_ton_usd that fails in its fetch (network error, error
\* status, missing field, non-positive rate, timeout) has not called
\* save_cache, and the step in which it fails leaves the cache file as it was.
C1_FailedFetchWritesNothing ==
    [][\A m \in Msgs :
         (ret[m].st = "none" /\ ret'[m].st = "exc" /\ ret'[m].e \in FetchFailures)
            => (file' = file /\ put'[m] = None)]_vars

\* C1 witness: a call failed on a non-positive rate while a record is persisted
C1_Witness ==
    \E m \in Msgs :
        /\ pc[m] = "done"
        /\ ret[m] = Exc("RuntimeError")
        /\ data[m] = Body("number", I(-1))
        /\ load_cache(file, "ok") # None

\* C2: a call that finds a record with now - ts < TTL returns that record's
\* rate, issues no request and leaves the cache file unchanged.
C2_FreshHit ==
    [][\A m \in Msgs :
         (/\ Calls(m)
          /\ load_cache(file, storage) # None
          /\ clock - load_cache(file, storage).ts.n < CACHE_TTL_SEC)
            => (/\ ret'[m] = Ret(load_cache(file, storage).ton_usd)
                /\ reqs'[m] = 0
                /\ pc'[m] = "done"
                /\ file' = file)]_vars

\* C2 witness: a call served a record aged TTL - 1 from the cache
C2_Witness ==
    \E m \in Msgs :
        /\ pc[m] = "done"
        /\ cached[m] # None
        /\ now[m] - cached[m].ts.n = CACHE_TTL_SEC - 1
        /\ ret[m] = Ret(cached[m].ton_usd)
        /\ reqs[m] = 0

\* C3: a call issues a network request exactly when it finds no record or a
\* record with now - ts >= TTL.
C3_RequestIffStale ==
    [][\A m \in Msgs :
         Calls(m) =>
            ((reqs'[m] = 1 /\ pc'[m] = "get")
                <=> (\/ load_cache(file, storage) = None
                     \/ clock - load_cache(file, storage).ts.n >= CACHE_TTL_SEC))]_vars

\* C3 witness: a record aged exactly TTL was refetched
C3_Witness ==
    \E m \in Msgs :
        /\ pc[m] = "get"
        /\ cached[m] # None
        /\ now[m] - cached[m].ts.n = CACHE_TTL_SEC
        /\ reqs[m] = 1

\* C4 as claimed: when a call returns after a remote fetch, the persisted
\* record holds the fetched rate and the current time of the write, and the
\* value returned is the rate written.
C4_Original ==
    [][\A m \in Msgs :
         (pc[m] = "json" /\ ret'[m].st = "ret")
            => (/\ load_cache(file', "ok") = TonUsdPrice(data'[m].v, I(clock))
                /\ ret'[m].v = data'[m].v)]_vars

\* C4 amended: when a call returns after a remote fetch, it has passed to
\* save_cache the fetched rate and the time it read at its start, before the
\* request (not later than the time of the write); the persisted record is
\* that record and the value returned is the rate written.
C4_WritesStartTime ==
    [][\A m \in Msgs :
         (pc[m] = "json" /\ ret'[m].st = "ret")
            => (/\ put'[m] = TonUsdPrice(data'[m].v, I(now[m]))
                /\ load_cache(file', "ok") = put'[m]
                /\ ret'[m].v = data'[m].v
                /\ now[m] <= clock)]_vars

\* C4 witness: a call returned a fetched rate after the clock had advanced
C4_Witness ==
    \E m \in Msgs :
        /\ pc[m] = "done"
        /\ ret[m] = Ret(I(12))
        /\ put[m] = TonUsdPrice(I(12), I(now[m]))
        /\ load_cache(file, "ok") = put[m]
        /\ now[m] < clock

\* C5: after a put a reader sees the complete record of before the put or
\* the complete record put, never anything else.
C5_AtomicPut ==
    [][\A m \in Msgs :
         (pc[m] = "json" /\ put'[m] # None)
            => load_cache(file', "ok") \in {load_cache(file, "ok"), put'[m]}]_vars

\* C6: the persisted record, if present, has rate > 0, and every rate that
\* fetch_ton_usd returns is > 0.
C6_PositiveRate ==
    /\ load_cache(file, "ok") # None => FGt(load_cache(file, "ok").ton_usd, I(0))
    /\ \A m \in Msgs : ret[m].st = "ret" => FGt(ret[m].v, I(0))

\* C7: when the cache file is missing, malformed or cannot be read,
\* load_cache gives None without raising, and the call goes on to the
\* remote fetch as on a miss.
C7_UnreadableIsMiss ==
    [][\A m \in Msgs :
         (/\ Calls(m)
          /\ (\/ ~file.exists
              \/ JsonLoad(file.content) = None
              \/ storage = "EACCES"))
            => (/\ cached'[m] = None
                /\ ret'[m] = NoRet
                /\ pc'[m] = "get"
                /\ reqs'[m] = 1)]_vars

\* C7 witness: a call that found a malformed cache file is fetching
C7_Witness ==
    \E m \in Msgs :
        /\ pc[m] = "get"
        /\ cached[m] = None
        /\ file.exists
        /\ JsonLoad(file.content) = None
        /\ storage = "ok"

\* C8: a save_cache that returns, followed at once by load_cache, gives back
\* the record saved, whatever the file held before.
C8_RoundTrip ==
    (unit.op = "putget" /\ unit.exc = "") => unit.got = unit.p

\* C8 witness: a shorter record was saved over a longer one and read back
C8_Witness ==
    /\ unit.op = "putget"
    /\ unit.exc = ""
    /\ unit.before.exists
    /\ Len(unit.before.content) > Len(file.content)
    /\ unit.got = unit.p

\* C9: a handled message has exactly one answer: the rejection if the text
\* is no price, the error with the failure's description if fetch_ton_usd or
\* calc failed, else a result with every field; and a message not yet
\* handled can be handled whatever happened to the others.
C9_AllOrNothing ==
    \A m \in Msgs :
        /\ pc[m] = "done" =>
            /\ Len(replies[m]) = 1
            /\ price[m] = NoPrice => replies[m][1] = RejectReply
            /\ ret[m].st = "exc" =>
                /\ replies[m][1].kind = "error"
                /\ replies[m][1].text = StrOf(ret[m].e)
                /\ replies[m][1].d = None
            /\ (ret[m].st = "ret" /\ calc(price[m], ret[m].v).exc = "") =>
                /\ replies[m][1].kind = "result"
                /\ DOMAIN replies[m][1].d = Fields
                /\ replies[m][1].d.ton_usd = Fmt6(ret[m].v)
            /\ (ret[m].st = "ret" /\ calc(price[m], ret[m].v).exc # "") =>
                /\ replies[m][1].kind = "error"
                /\ replies[m][1].d = None
        /\ pc[m] # "done" => replies[m] = <<>>
        /\ (Arrives(m)) =>
              ENABLED (\E t \in Texts : Reject(m, t) \/ ServeCached(m, t) \/ StartFetch(m, t))

\* C9 witness: a message got the error answer while another awaits handling
C9_Witness ==
    \E m, j \in Msgs :
        /\ pc[m] = "done"
        /\ ret[m].st = "exc"
        /\ replies[m] = <<ErrorReply(ret[m].e)>>
        /\ pc[j] = "new"

\* C10: calc fails whenever price_ton is not finite or ton_usd is not > 0.
C10_CalcRejects ==
    (unit.op = "calc" /\ (~IsFinite(unit.price_ton) \/ ~FGt(unit.ton_usd, I(0))))
        => unit.res.exc # ""

\* C11: for a finite price p and a rate r > 0, calc returns minus5_ton =
\* p * 0.95, transfer25_ton = (0.78 / r) / 2 and result_ton = their
\* difference (stated here on numerators and denominators, in hundredths);
\* calc(12.8, 5.0) gives 12.16, 0.078 and 12.082.
C11_CalcFormula ==
    (unit.op = "calc" /\ IsFinite(unit.price_ton) /\ IsFinite(unit.ton_usd) /\ unit.ton_usd.n > 0) =>
        LET p == unit.price_ton
            r == unit.ton_usd
            d == unit.res.d
        IN  /\ unit.res.exc = ""
            /\ d.minus5_ton.n * (100 * p.d) = d.minus5_ton.d * (95 * p.n)
            /\ d.transfer25_ton.n * (200 * r.n) = d.transfer25_ton.d * (78 * r.d)
            /\ d.result_ton.n * (100 * p.d * r.n) = d.result_ton.d * (95 * p.n * r.n - 39 * r.d * p.d)
            /\ (p = Fin(64, 5) /\ r = I(5)) =>
                  /\ d.minus5_ton = Fin(1216, 100)
                  /\ d.transfer25_ton = Fin(78, 1000)
                  /\ d.result_ton = Fin(12082, 1000)

\* C11 witness: calc(12.8, 5.0) was called and gave 12.082
C11_Witness ==
    /\ unit.op = "calc"
    /\ unit.price_ton = Fin(64, 5)
    /\ unit.ton_usd = I(5)
    /\ unit.res.exc = ""
    /\ unit.res.d.result_ton = Fin(12082, 1000)

\* texts that do not match \s*(-?\d+(?:[.,]\d+)?)\s*
NonPrices == {<<"a", "b", "c">>, <<"1", ".", "2", ".", "3">>, <<>>}

\* C12: the handler of a message whose text is no price sends the fixed
\* rejection and does nothing else: no fetch_ton_usd (no cache read, no
\* request), no cache write, no result and no error answer.
C12_RejectOnly ==
    [][\A m \in Msgs :
         (pc[m] = "new" /\ pc'[m] # "new" /\ text'[m] \in NonPrices)
            => (/\ replies'[m] = <<RejectReply>>
                /\ pc'[m] = "done"
                /\ price'[m] = NoPrice
                /\ cached'[m] = None
                /\ ret'[m] = NoRet
                /\ put'[m] = None
                /\ reqs' = reqs
                /\ file' = file)]_vars

\* C12 witness: "1.2.3" was rejected while a record is cached
C12_Witness ==
    \E m \in Msgs :
        /\ pc[m] = "done"
        /\ text[m] = <<"1", ".", "2", ".", "3">>
        /\ replies[m] = <<RejectReply>>
        /\ load_cache(file, "ok") # None

\* C13: with BOT_TOKEN unset or empty the process never polls: no message
\* is handled, no request issued, the cache file neither read nor written.
C13_NoTokenNoStart ==
    [][~Truthy(token) =>
          (/\ proc' # "polling"
           /\ pc' = pc
           /\ reqs' = reqs
           /\ cached' = cached
           /\ replies' = replies
           /\ file' = file)]_vars

\* C13 witness: the process has exited for want of a token
C13_Witness == token = Unset /\ proc = "exit" /\ \A m \in Msgs : pc[m] = "new"

\* C14: a call of fetch_ton_usd issues at most one request: none when it
\* returns the cached rate, exactly one otherwise, also when the fetch fails.
C14_OneRequestPerCall ==
    \A m \in Msgs :
        /\ reqs[m] <= 1
        /\ Pending(m) => reqs[m] = 1
        /\ (pc[m] = "done" /\ price[m] # NoPrice) =>
              reqs[m] = IF cached[m] # None /\ now[m] - cached[m].ts.n < CACHE_TTL_SEC
                        THEN 0 ELSE 1

\* C14 witness: a call whose only request failed has ended with the error
C14_Witness ==
    \E m \in Msgs :
        /\ pc[m] = "done"
        /\ ret[m] = Exc("ClientConnectorError")
        /\ reqs[m] = 1

\* C15: a call waiting for the remote source eventually ends with a rate or
\* an exception, and its message is answered with a result or an error.
C15_EveryCallEnds ==
    \A m \in Msgs :
        Pending(m) ~> (pc[m] = "done" /\ ret[m] # NoRet /\ Len(replies[m]) = 1)

\* C15 witness: a request issued between two sampled instants was ended by
\* its timer and answered with the error
C15_Witness ==
    \E m \in Msgs :
        /\ pc[m] = "done"
        /\ now[m] = StartClock + 1
        /\ clock = now[m] + TIMEOUT_TOTAL
        /\ ret[m] = Exc("TimeoutError")
        /\ replies[m] = <<ErrorReply("TimeoutError")>>

\* C16 as claimed: the timestamp of the persisted record never decreases; a
\* put never replaces a record by one with an older timestamp.
C16_Original ==
    [][(load_cache(file, "ok") # None /\ load_cache(file', "ok") # None)
          => load_cache(file', "ok").ts.n >= load_cache(file, "ok").ts.n]_vars

\* C16: a put writes the time read when its call began, so it may replace a
\* record written by a call that began later; the timestamp then decreases,
\* by less than the timeout of the request.
C16_DecreaseBelowTimeout ==
    [][(load_cache(file, "ok") # None /\ load_cache(file', "ok") # None)
          => load_cache(file', "ok").ts.n > load_cache(file, "ok").ts.n - TIMEOUT_TOTAL]_vars

\* C16 witness: a put has replaced a record by one with an older timestamp
C16_Witness ==
    \E m \in Msgs :
        /\ pc[m] = "done"
        /\ put[m] # None
        /\ load_cache(file, "ok") = put[m]
        /\ load_cache(over[m], "ok") # None
        /\ load_cache(over[m], "ok").ts.n > put[m].ts.n

C18_WriteFailureTolerated ==
    [][\A m \in Msgs :
         (/\ pc[m] = "json" /\ pc'[m] = "done"
          /\ data'[m].shape = "number"
          /\ IsFinite(data'[m].v) /\ FGt(data'[m].v, I(0)))
            => (/\ ret'[m] = Ret(data'[m].v)
                /\ storage # "ok" => load_cache(file', "ok") = load_cache(file, "ok"))]_vars
====
